---- MODULE Spec2Model ----
(***************************************************************************)
(* Model of country_codes: the CountryCodes directory of                   *)
(* iso_3166_country_codes.py (lazily built, cached indices over the json   *)
(* dataset; exact and approximate lookups) and the command line front end  *)
(* of country_code.py.                                                     *)
(*                                                                         *)
(* A Python str is a sequence of one-character strings.  An Optional value *)
(* is a sequence of length at most one: None is << >>, a value v is <<v>>. *)
(* A dict is a function whose DOMAIN is its key set.                       *)
(***************************************************************************)
EXTENDS Integers, Sequences, FiniteSets, TLC

VARIABLES
    json_data,           \* CountryCodes.json_data: the records of the data file
    fuzzy_installed,     \* whether "from fuzzywuzzy.process import extractOne" succeeded
    iso_to_country_map,  \* cached_property value, None until first access
    country_to_iso_map,  \* cached_property value, None until first access
    countries,           \* cached_property value, None until first access
    upper_country_map,   \* cached_property value, None until first access
    builds,              \* how many times each cached_property body has run
    call,                \* the last call made: [op, arg, cutoff]
    ret,                 \* what it did: [raised, value]
    stdout,              \* the lines the last command line run printed
    status               \* the exit status of the last command line run

vars == <<json_data, fuzzy_installed, iso_to_country_map, country_to_iso_map,
          countries, upper_country_map, builds, call, ret, stdout, status>>

-----------------------------------------------------------------------------
(* Bounds of the model *)

\* records in the data file, when the calls are of one kind (SpecLookup, SpecMatch)
MaxRecords == 2
\* records in the data file, when every call may follow every other (Spec)
MaxRecordsAnyOrder == 1
\* entries in one record's "Alias" list
MaxAlias == 1

-----------------------------------------------------------------------------
(* Python values *)

None == << >>
Some(v) == <<v>>

LowerCase == <<"a", "b", "g", "k", "s", "u", "x", "y", "z">>
UpperCase == <<"A", "B", "G", "K", "S", "U", "X", "Y", "Z">>

\* the upper case form of each lower case letter, and the converse
ToUpper == [c \in {LowerCase[i] : i \in DOMAIN LowerCase} |->
               UpperCase[CHOOSE i \in DOMAIN LowerCase : LowerCase[i] = c]]
ToLower == [c \in {UpperCase[i] : i \in DOMAIN UpperCase} |->
               LowerCase[CHOOSE i \in DOMAIN UpperCase : UpperCase[i] = c]]

\* str.upper on one character: a character that is no lower case letter is kept
UpperChar(c) == IF c \in DOMAIN ToUpper THEN ToUpper[c] ELSE c

\* str.lower on one character: a character that is no upper case letter is kept
LowerChar(c) == IF c \in DOMAIN ToLower THEN ToLower[c] ELSE c

\* str.upper
str_upper(s) == [i \in 1..Len(s) |-> UpperChar(s[i])]

\* str.lower
str_lower(s) == [i \in 1..Len(s) |-> LowerChar(s[i])]

\* d[k] = v
DictSet(d, k, v) == [x \in (DOMAIN d) \cup {k} |-> IF x = k THEN v ELSE d[x]]

\* d.get(k)
DictGet(d, k) == IF k \in DOMAIN d THEN Some(d[k]) ELSE None

EmptyDict == [x \in {} |-> None]

-----------------------------------------------------------------------------
(* The strings the model draws datasets and queries from *)

US == <<"U", "S">>
us == <<"u", "s">>
Us == <<"U", "s">>
gb == <<"g", "b">>
ZZ == <<"Z", "Z">>

Usa == <<"U", "s", "a">>
USA == <<"U", "S", "A">>
usa == <<"u", "s", "a">>
Usb == <<"U", "s", "b">>
Uk == <<"U", "k">>
uk == <<"u", "k">>
Xyz == <<"X", "y", "z">>

CodePool == {US, gb}
NamePool == {Usa, Uk}
AliasPool == {USA}

SeqsUpTo(S, n) == UNION {[1..k -> S] : k \in 0..n}

\* item.get("Alias"): None when the record has no "Alias" key, else the list
AliasChoices == {None} \cup {Some(l) : l \in SeqsUpTo(AliasPool, MaxAlias)}

Items == [Code : CodePool, Name : NamePool, Alias : AliasChoices]

Datasets(n) == SeqsUpTo(Items, n)

\* the queries of a process that looks codes and names up
IsoQueries == {US, us, Us, gb, ZZ}
NameQueries == {USA, usa, uk, Xyz}

\* the queries of a process that matches names
MatchQueries == {usa, Usb, Xyz}

\* the queries of a process that makes calls of every kind
IsoQueriesAnyOrder == {us, ZZ}
NameQueriesAnyOrder == {usa, Xyz}

Cutoffs == {66, 101}

-----------------------------------------------------------------------------
(* The cached indices of CountryCodes *)

IndexNames == {"iso_to_country_map", "country_to_iso_map", "countries", "upper_country_map"}

\* a faulty variant: a plain property, whose body runs at every access
CacheNeverHit(cache) == FALSE

\* functools.cached_property: the body runs only when the instance holds no value yet
CacheHit(cache) == cache # None

\* {item["Code"]: item["Name"] for item in self.json_data}, the first n items done
RECURSIVE IsoToCountryUpTo(_, _)
IsoToCountryUpTo(data, n) ==
    IF n = 0 THEN EmptyDict
    ELSE DictSet(IsoToCountryUpTo(data, n - 1), data[n].Code, data[n].Name)

build_iso_to_country_map(data) == IsoToCountryUpTo(data, Len(data))

\* for alias in alias_list: country_to_iso_map[alias.upper()] = country_code
RECURSIVE AddAliases(_, _, _, _)
AddAliases(m, alias_list, n, country_code) ==
    IF n = 0 THEN m
    ELSE DictSet(AddAliases(m, alias_list, n - 1, country_code),
                 str_upper(alias_list[n]), country_code)

\* one iteration of the loop over self.json_data in country_to_iso_map
AddCountry(m, item) ==
    LET named == DictSet(m, str_upper(item.Name), item.Code)
    IN  IF item.Alias # None
        THEN AddAliases(named, item.Alias[1], Len(item.Alias[1]), item.Code)
        ELSE named

RECURSIVE CountryToIsoUpTo(_, _)
CountryToIsoUpTo(data, n) ==
    IF n = 0 THEN EmptyDict
    ELSE AddCountry(CountryToIsoUpTo(data, n - 1), data[n])

build_country_to_iso_map(data) == CountryToIsoUpTo(data, Len(data))

\* the names one item adds to the set of countries
ItemCountries(item) ==
    {item.Name} \cup
    (IF item.Alias # None
     THEN {item.Alias[1][j] : j \in 1..Len(item.Alias[1])}
     ELSE {})

\* the set the loop over self.json_data builds
CountrySet(data) == UNION {ItemCountries(data[i]) : i \in 1..Len(data)}

\* A set is iterated in an order the program does not choose, the same at
\* every iteration of the unchanged set.  The value of countries is the set
\* in its iteration order; every order is a value the property may produce.
build_countries(data) ==
    {order \in [1..Cardinality(CountrySet(data)) -> CountrySet(data)] :
        \A i, j \in DOMAIN order : order[i] = order[j] => i = j}

\* {c.upper(): c for c in self.countries}, the first n of the set done:
\* a later c replaces an earlier one with the same key
RECURSIVE UpperCountryUpTo(_, _)
UpperCountryUpTo(cs, n) ==
    IF n = 0 THEN EmptyDict
    ELSE DictSet(UpperCountryUpTo(cs, n - 1), str_upper(cs[n]), cs[n])

build_upper_country_map(cs) == UpperCountryUpTo(cs, Len(cs))

-----------------------------------------------------------------------------
(* Approximate matching *)

Min(a, b) == IF a <= b THEN a ELSE b

\* the similarity of two strings on the scale 0..100, compared without case:
\* twice the number of agreeing positions over the total length
Score(query, choice) ==
    LET a == str_lower(query)
        b == str_lower(choice)
        same == Cardinality({i \in 1..Min(Len(a), Len(b)) : a[i] = b[i]})
    IN  IF Len(a) + Len(b) = 0 THEN 0 ELSE (200 * same) \div (Len(a) + Len(b))

\* max(best_list, key=score) over the choices, in their iteration order, that
\* score at least score_cutoff: the first of the highest scoring ones
BestChoice(query, choices, score_cutoff) ==
    LET score == [i \in DOMAIN choices |-> Score(query, choices[i])]
        ok == {i \in DOMAIN choices : score[i] >= score_cutoff}
        top == {i \in ok : \A k \in ok : score[k] <= score[i]}
    IN  IF ok = {} THEN None
        ELSE LET first == CHOOSE i \in top : \A k \in top : i <= k
             IN  Some(<<choices[first], score[first]>>)

\* extractOne(query, choices, score_cutoff): the (choice, score) pair or None.
\* Without fuzzywuzzy it is the stub that returns None.
extractOne(query, choices, score_cutoff) ==
    IF ~fuzzy_installed THEN None
    ELSE BestChoice(query, choices, score_cutoff)

-----------------------------------------------------------------------------
(* The lookups of CountryCodes, given the indices they read *)

Returned(v) == [raised |-> "", value |-> v, scored |-> FALSE]
Raised(e) == [raised |-> e, value |-> None, scored |-> FALSE]

\* a faulty variant: the query is looked up as typed
country_from_iso_as_typed(m, iso) == Returned(DictGet(m, iso))

\* self.iso_to_country_map.get(iso.upper())
country_from_iso(m, iso) == Returned(DictGet(m, str_upper(iso)))

\* self.country_to_iso_map.get(country.upper()); country is what the caller
\* passed, and None has no upper()
iso_from_country(m, country) ==
    IF country = None THEN Raised("AttributeError")
    ELSE Returned(DictGet(m, str_upper(country[1])))

\* a faulty variant: the exact lookup is made with the query as typed
match_country_as_typed(m, cs, country, cutoff) ==
    LET country_match == DictGet(m, country)
    IN  IF country_match # None
        THEN Returned(country_match)
        ELSE LET fuzzy_match == extractOne(country, cs, cutoff)
             IN  [raised |-> "",
                  value |-> IF fuzzy_match # None THEN Some(fuzzy_match[1][1]) ELSE None,
                  scored |-> TRUE]

\* a faulty variant: cutoff is not handed to extractOne, whose own default is 0
match_country_without_cutoff(m, cs, country, cutoff) ==
    LET country_match == DictGet(m, str_upper(country))
    IN  IF country_match # None
        THEN Returned(country_match)
        ELSE LET fuzzy_match == extractOne(country, cs, 0)
             IN  [raised |-> "",
                  value |-> IF fuzzy_match # None THEN Some(fuzzy_match[1][1]) ELSE None,
                  scored |-> TRUE]

\* a faulty variant: the result of extractOne is subscripted without the test
\* for None
match_country_unchecked(m, cs, country, cutoff) ==
    LET country_match == DictGet(m, str_upper(country))
    IN  IF country_match # None
        THEN Returned(country_match)
        ELSE LET fuzzy_match == extractOne(country, cs, cutoff)
             IN  [raised |-> IF fuzzy_match # None THEN "" ELSE "TypeError",
                  value |-> IF fuzzy_match # None THEN Some(fuzzy_match[1][1]) ELSE None,
                  scored |-> TRUE]

\* match_country, given upper_country_map m and countries cs; scored tells
\* whether extractOne was called
match_country(m, cs, country, cutoff) ==
    LET country_match == DictGet(m, str_upper(country))
    IN  IF country_match # None
        THEN Returned(country_match)
        ELSE LET fuzzy_match == extractOne(country, cs, cutoff)
             IN  [raised |-> "",
                  value |-> IF fuzzy_match # None THEN Some(fuzzy_match[1][1]) ELSE None,
                  scored |-> TRUE]

-----------------------------------------------------------------------------
(* State after "COUNTRY_CODES = CountryCodes()": nothing is built yet.  The *)
(* data file and the presence of fuzzywuzzy are fixed for the process.      *)

DefaultCutoff == 90

NoCall == [op |-> "", arg |-> None, cutoff |-> 0, chained |-> FALSE, prev |-> None]

Call(op, arg, cutoff) ==
    [op |-> op, arg |-> arg, cutoff |-> cutoff, chained |-> FALSE, prev |-> None]

\* a call whose argument is what the previous call returned
ChainedCall(op, cutoff) ==
    [op |-> op, arg |-> ret.value, cutoff |-> cutoff, chained |-> TRUE, prev |-> call.arg]

InitWith(records) ==
    /\ json_data \in Datasets(records)
    /\ fuzzy_installed \in BOOLEAN
    /\ iso_to_country_map = None
    /\ country_to_iso_map = None
    /\ countries = None
    /\ upper_country_map = None
    /\ builds = [n \in IndexNames |-> 0]
    /\ call = NoCall
    /\ ret = Returned(None)
    /\ stdout = << >>
    /\ status = 0

\* the counters after the bodies of the properties in ran have run once more
Ran(ran) == [n \in IndexNames |-> IF n \in ran THEN builds[n] + 1 ELSE builds[n]]

\* self.iso_to_country_map
Get_iso_to_country_map ==
    IF CacheHit(iso_to_country_map) THEN iso_to_country_map[1]
    ELSE build_iso_to_country_map(json_data)

\* self.country_to_iso_map
Get_country_to_iso_map ==
    IF CacheHit(country_to_iso_map) THEN country_to_iso_map[1]
    ELSE build_country_to_iso_map(json_data)

\* self.countries: every value the access may yield
Get_countries ==
    IF CacheHit(countries) THEN {countries[1]} ELSE build_countries(json_data)

\* self.upper_country_map, when self.countries yields cs
Get_upper_country_map(cs) ==
    IF CacheHit(upper_country_map) THEN upper_country_map[1]
    ELSE build_upper_country_map(cs)

\* the properties whose bodies run when each index is read
MissIsoToCountry == IF CacheHit(iso_to_country_map) THEN {} ELSE {"iso_to_country_map"}
MissCountryToIso == IF CacheHit(country_to_iso_map) THEN {} ELSE {"country_to_iso_map"}
MissUpper == IF CacheHit(upper_country_map) THEN {} ELSE {"upper_country_map"}

\* match_country reads upper_country_map first, whose body reads countries,
\* and countries again when it calls extractOne: r is the call's outcome
ReadsCountries(r) == ~CacheHit(upper_country_map) \/ r.scored
MissCountries(r) == IF ReadsCountries(r) /\ ~CacheHit(countries) THEN {"countries"} ELSE {}

\* what match_country leaves in the instance, having read cs and returned r
MatchEffects(cs, r) ==
    /\ upper_country_map' = Some(Get_upper_country_map(cs))
    /\ countries' = IF ReadsCountries(r) THEN Some(cs) ELSE countries

\* exit(n): the process status is n modulo 256
ExitStatus(n) == n % 256

\* the line an f-string prints: its template and the values formatted into it
Line(fmt, args) == [fmt |-> fmt, args |-> args]

-----------------------------------------------------------------------------
(* Calls on the directory *)

CountryFromIso(iso) ==
    /\ ret' = country_from_iso(Get_iso_to_country_map, iso)
    /\ iso_to_country_map' = Some(Get_iso_to_country_map)
    /\ builds' = Ran(MissIsoToCountry)
    /\ call' = Call("country_from_iso", Some(iso), 0)
    /\ stdout' = << >>
    /\ UNCHANGED <<json_data, fuzzy_installed, country_to_iso_map, countries,
                   upper_country_map, status>>

IsoFromCountry(country) ==
    /\ ret' = iso_from_country(Get_country_to_iso_map, Some(country))
    /\ country_to_iso_map' = Some(Get_country_to_iso_map)
    /\ builds' = Ran(MissCountryToIso)
    /\ call' = Call("iso_from_country", Some(country), 0)
    /\ stdout' = << >>
    /\ UNCHANGED <<json_data, fuzzy_installed, iso_to_country_map, countries,
                   upper_country_map, status>>

MatchCountry(country, cutoff) ==
    /\ \E cs \in Get_countries :
         LET r == match_country(Get_upper_country_map(cs), cs, country, cutoff)
         IN /\ MatchEffects(cs, r)
            /\ builds' = Ran(MissUpper \cup MissCountries(r))
            /\ ret' = r
    /\ call' = Call("match_country", Some(country), cutoff)
    /\ stdout' = << >>
    /\ UNCHANGED <<json_data, fuzzy_installed, iso_to_country_map, country_to_iso_map,
                   status>>

\* iso_from_country(country_from_iso(c)): the second call of the round trip.
\* The index is read before country.upper() is evaluated.
IsoFromCountryOfResult ==
    /\ call.op = "country_from_iso"
    /\ ret' = iso_from_country(Get_country_to_iso_map, ret.value)
    /\ country_to_iso_map' = Some(Get_country_to_iso_map)
    /\ builds' = Ran(MissCountryToIso)
    /\ call' = ChainedCall("iso_from_country", 0)
    /\ stdout' = << >>
    /\ UNCHANGED <<json_data, fuzzy_installed, iso_to_country_map, countries,
                   upper_country_map, status>>

\* match_country(match_country(x)): the second call, made when the first matched
MatchCountryOfResult ==
    /\ call.op = "match_country"
    /\ ~call.chained
    /\ ret.value # None
    /\ \E cs \in Get_countries :
         LET r == match_country(Get_upper_country_map(cs), cs, ret.value[1], call.cutoff)
         IN /\ MatchEffects(cs, r)
            /\ builds' = Ran(MissUpper \cup MissCountries(r))
            /\ ret' = r
    /\ call' = ChainedCall("match_country", call.cutoff)
    /\ stdout' = << >>
    /\ UNCHANGED <<json_data, fuzzy_installed, iso_to_country_map, country_to_iso_map,
                   status>>

-----------------------------------------------------------------------------
(* The command line: country_code.py *)

\* country_code --iso <query>: exit(country_from_iso(args.query))
MainIso(iso) ==
    /\ ret' = country_from_iso(Get_iso_to_country_map, iso)
    /\ iso_to_country_map' = Some(Get_iso_to_country_map)
    /\ builds' = Ran(MissIsoToCountry)
    /\ call' = Call("main_iso", Some(iso), 0)
    /\ IF ret'.value = None
       THEN /\ stdout' = <<Line("Unknown country ISO: {iso}", <<Some(iso)>>)>>
            /\ status' = ExitStatus(-1)
       ELSE /\ stdout' = <<Line("{iso}: {country}", <<Some(iso), ret'.value>>)>>
            /\ status' = ExitStatus(0)
    /\ UNCHANGED <<json_data, fuzzy_installed, country_to_iso_map, countries,
                   upper_country_map>>

\* country_code <query>: exit(iso_from_country(args.query))
MainName(country) ==
    /\ \E cs \in Get_countries :
         LET r == match_country(Get_upper_country_map(cs), cs, country, DefaultCutoff)
         IN /\ MatchEffects(cs, r)
            /\ IF r.value = None
               THEN /\ ret' = r
                    /\ stdout' = <<Line("Unknown country: {country}", <<Some(country)>>)>>
                    /\ status' = ExitStatus(-1)
                    /\ builds' = Ran(MissUpper \cup MissCountries(r))
                    /\ UNCHANGED country_to_iso_map
               ELSE /\ ret' = iso_from_country(Get_country_to_iso_map, r.value)
                    /\ stdout' = <<Line("{country_match}", <<r.value>>),
                                   Line("{country_match}: {iso}", <<r.value, ret'.value>>)>>
                    /\ status' = ExitStatus(0)
                    /\ builds' = Ran(MissUpper \cup MissCountries(r) \cup MissCountryToIso)
                    /\ country_to_iso_map' = Some(Get_country_to_iso_map)
    /\ call' = Call("main_name", Some(country), DefaultCutoff)
    /\ UNCHANGED <<json_data, fuzzy_installed, iso_to_country_map>>

Next ==
    \/ \E iso \in IsoQueriesAnyOrder : CountryFromIso(iso)
    \/ \E country \in NameQueriesAnyOrder : IsoFromCountry(country)
    \/ \E country \in MatchQueries, cutoff \in Cutoffs : MatchCountry(country, cutoff)
    \/ IsoFromCountryOfResult
    \/ MatchCountryOfResult
    \/ \E iso \in IsoQueriesAnyOrder : MainIso(iso)
    \/ \E country \in MatchQueries : MainName(country)

Init == InitWith(MaxRecordsAnyOrder)

\* every call may follow every other
Spec == Init /\ [][Next]_vars

\* a process that looks codes and names up in the two exact indices
InitLookup == InitWith(MaxRecords)

NextLookup ==
    \/ \E iso \in IsoQueries : CountryFromIso(iso)
    \/ \E country \in NameQueries : IsoFromCountry(country)
    \/ IsoFromCountryOfResult
    \/ \E iso \in IsoQueries : MainIso(iso)

SpecLookup == InitLookup /\ [][NextLookup]_vars

\* a process that matches names
InitMatch == InitWith(MaxRecords)

NextMatch ==
    \/ \E country \in MatchQueries, cutoff \in Cutoffs : MatchCountry(country, cutoff)
    \/ MatchCountryOfResult

SpecMatch == InitMatch /\ [][NextMatch]_vars

-----------------------------------------------------------------------------
(* What the dataset holds, read off the records themselves *)

\* where a name stands in the dataset: <<record, 0>> is the record's "Name",
\* <<record, j>> the j-th entry of its "Alias" list
Occurrences(data) ==
    UNION {{<<i, j>> : j \in 0..(IF data[i].Alias = None THEN 0 ELSE Len(data[i].Alias[1]))}
           : i \in 1..Len(data)}

NameAt(data, o) == IF o[2] = 0 THEN data[o[1]].Name ELSE data[o[1]].Alias[1][o[2]]

\* some name or alias occurs more than once, compared without case
HasDuplicateName(data) ==
    \E o1, o2 \in Occurrences(data) :
        o1 # o2 /\ str_upper(NameAt(data, o1)) = str_upper(NameAt(data, o2))

\* no two records carry the same code, compared without case
CodesUnique(data) ==
    \A i, j \in 1..Len(data) :
        str_upper(data[i].Code) = str_upper(data[j].Code) => i = j

\* every code is stored in upper case
CodesUpper(data) == \A i \in 1..Len(data) : data[i].Code = str_upper(data[i].Code)

\* the stored names and aliases that equal q when both are uppercased
Hits(data, q) == {c \in CountrySet(data) : str_upper(c) = str_upper(q)}

\* the "Name" of the last record whose "Code" is key
LastNameOf(data, key) ==
    data[CHOOSE i \in 1..Len(data) :
            /\ data[i].Code = key
            /\ \A j \in 1..Len(data) : data[j].Code = key => j <= i].Name

\* the indices one call of op reads
Needs(op) ==
    CASE op = "country_from_iso" -> {"iso_to_country_map"}
      [] op = "iso_from_country" -> {"country_to_iso_map"}
      [] op = "match_country" -> {"upper_country_map", "countries"}
      [] OTHER -> {}

Cache(n) ==
    CASE n = "iso_to_country_map" -> iso_to_country_map
      [] n = "country_to_iso_map" -> country_to_iso_map
      [] n = "countries" -> countries
      [] n = "upper_country_map" -> upper_country_map

-----------------------------------------------------------------------------
(* The claims *)

\* C1: building country_to_iso_map over a dataset in which a name or alias,
\* compared without case, occurs more than once fails; the index is never
\* completed for such a dataset.
C1_DuplicateNameAbortsBuild ==
    country_to_iso_map # None => ~HasDuplicateName(json_data)

\* C2: for every record and every casing of its code, country_from_iso
\* returns that record's canonical name (codes being unique).
C2_CodeResolvesInAnyCase ==
    (call.op = "country_from_iso" /\ CodesUnique(json_data)) =>
        \A i \in 1..Len(json_data) :
            str_upper(json_data[i].Code) = str_upper(call.arg[1]) =>
                ret = Returned(Some(json_data[i].Name))

\* C3: for every name and alias of every record, in every casing,
\* iso_from_country returns the code of the record that lists it.
C3_NameResolvesToOwner ==
    (call.op = "iso_from_country" /\ call.arg # None) =>
        \A i \in 1..Len(json_data) :
            \A n \in ItemCountries(json_data[i]) :
                str_upper(n) = str_upper(call.arg[1]) =>
                    ret = Returned(Some(json_data[i].Code))

\* C3 on the datasets in which no name or alias occurs twice.
NameResolvesToOwnerIfNoDuplicate ==
    ~HasDuplicateName(json_data) => C3_NameResolvesToOwner

\* C2 on the datasets whose codes are stored in upper case.
CodeResolvesIfStoredUpper ==
    CodesUpper(json_data) => C2_CodeResolvesInAnyCase

\* C4: round trip: for every code c of a dataset with unique codes and unique
\* names, iso_from_country(country_from_iso(c)) returns c.
C4_RoundTrip ==
    (/\ call.op = "iso_from_country"
     /\ call.chained
     /\ \E i \in 1..Len(json_data) : json_data[i].Code = call.prev[1]
     /\ CodesUnique(json_data)
     /\ ~HasDuplicateName(json_data)) =>
        ret = Returned(call.prev)

\* C4 on the datasets whose codes are stored in upper case.
RoundTripIfStoredUpper ==
    CodesUpper(json_data) => C4_RoundTrip

\* C5: when the uppercased query equals the uppercased form of a stored name
\* or alias, match_country returns such a stored name in its stored casing and
\* does not call extractOne, whatever the cutoff.
C5_ExactMatchFirst ==
    (call.op = "match_country" /\ Hits(json_data, call.arg[1]) # {}) =>
        /\ ret.raised = ""
        /\ ret.value \in {Some(c) : c \in Hits(json_data, call.arg[1])}
        /\ ~ret.scored

\* C5 witness: a query in another casing than the stored name is resolved to
\* the stored casing under a cutoff no score reaches, with fuzzywuzzy present.
C5_Witness ==
    /\ call.op = "match_country"
    /\ call.cutoff = 101
    /\ fuzzy_installed
    /\ ~ret.scored
    /\ ret.value # None
    /\ ret.value # call.arg

C7_MatchIdempotent ==
    (call.op = "match_country" /\ call.chained) => ret.value = call.arg

\* C7 on the datasets in which no name or alias occurs twice.
MatchIdempotentIfNoDuplicate ==
    ~HasDuplicateName(json_data) => C7_MatchIdempotent

\* C8: given a string, country_from_iso, iso_from_country and match_country
\* never raise, and return None for a query that resolves to nothing.
C8_NotFoundIsNone ==
    LET q == call.arg[1]
        found ==
            CASE call.op = "country_from_iso" ->
                    \E i \in 1..Len(json_data) : json_data[i].Code = str_upper(q)
              [] call.op = "iso_from_country" -> Hits(json_data, q) # {}
              [] call.op = "match_country" ->
                    \/ Hits(json_data, q) # {}
                    \/ /\ fuzzy_installed
                       /\ \E c \in CountrySet(json_data) : Score(q, c) >= call.cutoff
    IN  (call.op \in {"country_from_iso", "iso_from_country", "match_country"}
         /\ call.arg # None) =>
            /\ ret.raised = ""
            /\ ~found => ret.value = None

\* C8 witness: match_country returned None after extractOne, with fuzzywuzzy
\* present, found nothing at or above cutoff.
C8_Witness ==
    /\ call.op = "match_country"
    /\ fuzzy_installed
    /\ ret.scored
    /\ ret.raised = ""
    /\ ret.value = None
    /\ CountrySet(json_data) # {}

\* C9 as stated: in --iso mode, if the query is a casing of a record's code
\* the run prints "<code>: <name>" with that record's code and name and exits
\* with 0, otherwise it prints "Unknown country ISO: <query>" and exits non-zero
\* (codes being unique and stored in upper case).
C9_PrintsRecordCode ==
    (call.op = "main_iso" /\ CodesUnique(json_data) /\ CodesUpper(json_data)) =>
        IF \E i \in 1..Len(json_data) : json_data[i].Code = str_upper(call.arg[1])
        THEN \E i \in 1..Len(json_data) :
                /\ json_data[i].Code = str_upper(call.arg[1])
                /\ stdout = <<Line("{iso}: {country}",
                                   <<Some(json_data[i].Code), Some(json_data[i].Name)>>)>>
                /\ status = 0
        ELSE /\ stdout = <<Line("Unknown country ISO: {iso}", <<call.arg>>)>>
             /\ status # 0

\* C9 amended: in --iso mode, if the uppercased query equals the code stored
\* in some record the run prints "<query>: <name>", the query as typed and the
\* name of the last such record, and exits with 0; otherwise it prints
\* "Unknown country ISO: <query>" and exits with 255.
C9_PrintsQueryAsTyped ==
    call.op = "main_iso" =>
        IF \E i \in 1..Len(json_data) : json_data[i].Code = str_upper(call.arg[1])
        THEN /\ stdout = <<Line("{iso}: {country}",
                                <<call.arg, Some(LastNameOf(json_data, str_upper(call.arg[1])))>>)>>
             /\ status = 0
        ELSE /\ stdout = <<Line("Unknown country ISO: {iso}", <<call.arg>>)>>
             /\ status = 255

\* C9 witness: a query typed in lower case was resolved and echoed.
C9_Witness ==
    /\ call.op = "main_iso"
    /\ status = 0
    /\ call.arg[1] # str_upper(call.arg[1])
    /\ Len(stdout) = 1
    /\ stdout[1].args[1] = call.arg

\* C10: over any sequence of calls each index is built at most once, by the
\* first of country_from_iso, iso_from_country and match_country that reads it
\* and by no call that does not, and no later call changes an index once built.
C10_BuiltOnceNeverChanged ==
    [][\A n \in IndexNames :
          /\ builds'[n] <= 1
          /\ Cache(n) # None => Cache(n)' = Cache(n) /\ builds'[n] = builds[n]
          /\ (call'.op \in {"country_from_iso", "iso_from_country", "match_country"}
              /\ Cache(n) = None) =>
                 /\ (Cache(n)' # None) = (n \in Needs(call'.op))
                 /\ builds'[n] = IF n \in Needs(call'.op) THEN 1 ELSE 0]_vars

\* C10 witness: a second match_country call ran on indices built by the first.
C10_Witness ==
    /\ call.op = "match_country"
    /\ call.chained
    /\ builds["upper_country_map"] = 1
    /\ builds["countries"] = 1
    /\ upper_country_map # None

====
